---------------------------- MODULE Spec2Model ----------------------------
(***************************************************************************)
(* SmartQC: the asynchronous product / QC lifecycle.                       *)
(*                                                                         *)
(*   - the AI gateway's fallback ladder (services/geminiService.ts,        *)
(*     generateWithFallback and its two callers),                          *)
(*   - the lifecycle orchestrator (hooks/useProductManager.ts): optimistic *)
(*     insert, progress ticker, completion callbacks, delete,              *)
(*   - the record store adapter (saveProductToDb, fetchProducts,           *)
(*     deleteProductsFromDb) over the two tables products/product_images.  *)
(*                                                                         *)
(* The specifications share the variables:                                 *)
(*   SpecLadder  one run of generateWithFallback, any start configuration, *)
(*               any sequence of errors;                                   *)
(*   SpecStore   one product saved / changed / loaded sequentially;        *)
(*   Spec        the orchestrator with its tickers, AI operations and      *)
(*               fire-and-forget store requests interleaved;               *)
(*   SpecUi      Spec with inspections started only where the screens      *)
(*               allow it;                                                 *)
(*   SpecMount   the orchestrator from mount, with fetchProducts in        *)
(*               flight, on an empty store or on one an earlier session    *)
(*               left behind;                                              *)
(*   SpecIdentify one identification with every shape of response;         *)
(*   SpecInput   requests passing the screens' and the hook's input        *)
(*               checks;                                                   *)
(*   SpecQC      inspections of one identified product, overlapping or     *)
(*               not, on a running clock;                                  *)
(*   SpecTicker  one identification and its ticker, with the timer firing  *)
(*               until it is cleared;                                      *)
(*   SpecReports SpecQC next to the identification of a second product;    *)
(*   SpecFailures one product with store requests that succeed or fail;    *)
(*   SpecCall    one identification together with its gateway run;         *)
(*   SpecMedia   inspections with the files the file input lets through;   *)
(*   SpecParse   inspections with every shape of answer;                   *)
(*   SpecMountFair SpecMount in which calls settle and requests complete.  *)
(***************************************************************************)
EXTENDS Integers, Sequences, FiniteSets, TLC

VARIABLES
  gw,          \* the run of generateWithFallback: pc, model, thinking, calls, errs
  products,    \* useState<Product[]>: the in-memory collection, head first
  nextId,      \* ids handed out by generateUUID so far
  started,     \* AI operations started so far
  now,         \* Date.now()
  ops,         \* AI operations awaiting their completion callback
  tickers,     \* live setInterval timers of simulateProgress
  dbProducts,  \* table products: id -> content (the cleaned Product)
  dbImages,    \* table product_images: rows [pid, rid, idx, data]
  pending,     \* store requests sent and not yet completed, in issue order
  fetch,       \* the mount effect's fetchProducts: pc and the rows it holds
  deleted,     \* history: ids removed by handleDeleteSelected
  stale,       \* history: ids for which a callback or tick ran after removal
  loaded,      \* SpecStore: the aggregate fetchProducts last reassembled
  ui           \* alert() dialogs raised, and history: requests turned away

gwVars   == <<gw>>
memVars  == <<products, nextId, started, now, ops, tickers, deleted, stale>>
dbVars   == <<dbProducts, dbImages, pending, fetch>>
vars     == <<gw, products, nextId, started, now, ops, tickers, dbProducts, dbImages,
              pending, fetch, deleted, stale, loaded, ui>>

-----------------------------------------------------------------------------
(* Bounds of the model. *)

\* generateWithFallback is recursive: the model stops a run after this many calls.
MaxCalls == 5
\* Products created by handleStartIdentification in one run.
MaxProducts == 2
\* AI operations (identifications and inspections) started in one run.
MaxOps == 2
\* Store requests in flight at once.
MaxPending == 2
\* Clock ticks of Date.now() in one run.
MaxNow == 0
\* Requests turned away in one run of SpecInput.
MaxRejected == 2
\* Clock ticks of Date.now() in one run of SpecQC.
MaxQcNow == 2
\* Writes of one ticker in SpecTicker: more than it takes to pass the ceiling.
MaxTickerTicks == 17
\* Saves of the one product of SpecStore.
MaxSaves == 3
\* AI operations started in one run of SpecMount.
MountOps == 1
\* Progress updates one ticker applies in one run (it may always cancel itself).
MaxTicks == 2

-----------------------------------------------------------------------------
(* Small helpers. *)

Range(s) == {s[i] : i \in 1..Len(s)}

\* String.prototype.includes over a message held as a sequence of words.
Includes(msg, word) == \E i \in 1..Len(msg) : msg[i] = word

-----------------------------------------------------------------------------
(* AI gateway: generateWithFallback.                                        *)

\* The two model names the callers pass, as words split at '-'.
ModelPro   == <<"gemini", "3", "pro", "preview">>
ModelFlash == <<"gemini", "2.5", "flash">>
Models     == {ModelPro, ModelFlash}

\* mode === 'detailed' ? 'gemini-3-pro-preview' : 'gemini-2.5-flash'
ModelOf(mode) == IF mode = "detailed" THEN ModelPro ELSE ModelFlash
\* const useThinking = mode === 'detailed'
ThinkingOf(mode) == mode = "detailed"
AiModes == {"fast", "detailed"}

\* What a failed generateContent call can throw: message, status and code are
\* the three fields the catch block looks at (0: the field is absent).
Errors ==
  {[message |-> m, status |-> 0, code |-> 0] :
      m \in {<<>>, <<"Internal error">>, <<"got", "500">>, <<"got", "429">>,
             <<"fetch", "failed">>}}
  \cup {[message |-> <<>>, status |-> s, code |-> 0] : s \in {429, 500, 503}}
  \cup {[message |-> <<>>, status |-> 0, code |-> c] : c \in {429, 500}}
  \cup {[message |-> <<"got", "429">>, status |-> 500, code |-> 0]}

isInternalError(error) ==
  \/ Includes(error.message, "500")
  \/ Includes(error.message, "Internal error")
  \/ error.status = 500
  \/ error.code = 500

isQuotaError(error) ==
  \/ Includes(error.message, "429")
  \/ error.status = 429
  \/ error.code = 429

NoRetry == [retry |-> FALSE, model |-> <<>>, thinking |-> FALSE]

\* Mutant: the thinking-off retry is skipped, a 500 goes straight to the
\* lower-tier model.
FallbackNoThinkingStage(modelName, useThinking, error) ==
  IF (isQuotaError(error) \/ isInternalError(error)) /\ Includes(modelName, "pro")
  THEN [retry |-> TRUE, model |-> ModelFlash, thinking |-> FALSE]
  ELSE NoRetry

\* Mutant: the first retry leaves out its last argument, so useThinking takes
\* its default (true) again.
FallbackThinkingDefault(modelName, useThinking, error) ==
  IF useThinking /\ isInternalError(error)
  THEN [retry |-> TRUE, model |-> modelName, thinking |-> TRUE]
  ELSE IF (isQuotaError(error) \/ isInternalError(error)) /\ Includes(modelName, "pro")
  THEN [retry |-> TRUE, model |-> ModelFlash, thinking |-> FALSE]
  ELSE NoRetry

\* Mutant: the switch to the lower-tier model does not look at the model name.
FallbackAnyTier(modelName, useThinking, error) ==
  IF useThinking /\ isInternalError(error)
  THEN [retry |-> TRUE, model |-> modelName, thinking |-> FALSE]
  ELSE IF isQuotaError(error) \/ isInternalError(error)
  THEN [retry |-> TRUE, model |-> ModelFlash, thinking |-> FALSE]
  ELSE NoRetry

\* The catch block: the next call to make, or none (throw error).
Fallback(modelName, useThinking, error) ==
  IF useThinking /\ isInternalError(error)
  THEN [retry |-> TRUE, model |-> modelName, thinking |-> FALSE]
  ELSE IF (isQuotaError(error) \/ isInternalError(error)) /\ Includes(modelName, "pro")
  THEN [retry |-> TRUE, model |-> ModelFlash, thinking |-> FALSE]
  ELSE NoRetry

Call(modelName, useThinking) == [model |-> modelName, thinking |-> useThinking]

GwIdle == [pc |-> "idle", model |-> <<>>, thinking |-> FALSE,
           calls |-> <<>>, errs |-> <<>>]

\* generateWithFallback(apiKey, modelName, generateParams, useThinking): the
\* first generateContent call is issued at once.
GwStart(modelName, useThinking) ==
  [pc |-> "calling", model |-> modelName, thinking |-> useThinking,
   calls |-> <<Call(modelName, useThinking)>>, errs |-> <<>>]

\* ai.models.generateContent resolves: the response is returned.
GwCallReturns ==
  /\ gw.pc = "calling"
  /\ gw' = [gw EXCEPT !.pc = "returned"]

\* ai.models.generateContent rejects with error: the catch block retries with
\* a recursive call or rethrows.
GwCallFails(error) ==
  /\ gw.pc = "calling"
  /\ LET next == Fallback(gw.model, gw.thinking, error)
         errs == Append(gw.errs, error)
     IN  IF ~next.retry
         THEN gw' = [gw EXCEPT !.pc = "thrown", !.errs = errs]
         ELSE IF Len(gw.calls) >= MaxCalls
         THEN gw' = [gw EXCEPT !.pc = "capped", !.errs = errs]
         ELSE gw' = [gw EXCEPT !.model = next.model, !.thinking = next.thinking,
                               !.calls = Append(gw.calls, Call(next.model, next.thinking)),
                               !.errs = errs]

-----------------------------------------------------------------------------
(* Data: strings carry their JavaScript length, which saveProductToDb reads. *)

\* scheme: what startsWith('data:') / startsWith('http') see; mime: the text
\* between ':' and ';' of a data URI.
Str(text, length) == [text |-> text, length |-> length, scheme |-> "", mime |-> ""]
Url(text, length) == [text |-> text, length |-> length, scheme |-> "http", mime |-> ""]
DataUri(mime, payload, length) ==
  [text |-> payload, length |-> length, scheme |-> "data", mime |-> mime]

EmptyStr       == Str("", 0)
\* 'data:image/svg+xml;base64,PHN2...' : the URL-mode placeholder, 350 characters.
SvgPlaceholder == DataUri("image/svg+xml", "PHN2", 350)
\* fileToBase64 results: compressed JPEG data URIs.
PhotoA         == DataUri("image/jpeg", "AAAA", 40000)
PhotoB         == DataUri("image/jpeg", "BBBB", 52000)
\* details.imageUrl values: a short and a long absolute link.
OgUrl          == Url("https://brand.example/og.jpg", 28)
LongUrl        == Url("https://cdn.brand.example/long/og.jpg", 140)
\* The user-supplied product URL.
InputUrl       == Url("https://brand.example/shoe-123", 30)
\* cleanProduct.mainImage = "stored_in_product_images"
StoredMarker   == Str("stored_in_product_images", 24)

\* if (product.mainImage && product.mainImage.length > 100)
MinImageLength == 100
\* 'main' is the reserved report_id for the product cover image
MainReportId == "main"

\* Postgres error codes a store request can fail with.
UniqueViolation     == "23505"
ForeignKeyViolation == "23503"
StoreErrorCodes     == {UniqueViolation, ForeignKeyViolation, "PGRST301"}

None == [none |-> TRUE]

NoError == <<>>

\* Rows of product_images for one product, as saveProductToDb prepares them.
ImageRows(product) ==
  (IF product.mainImage.length > 0 /\ product.mainImage.length > MinImageLength
   THEN {[pid |-> product.id, rid |-> MainReportId, idx |-> 0,
          data |-> product.mainImage]}
   ELSE {})
  \cup
  UNION {
    {[pid |-> product.id, rid |-> product.qcReports[i].id, idx |-> j - 1,
      data |-> product.qcReports[i].images[j]] :
        j \in {k \in 1..Len(product.qcReports[i].images) :
                 /\ product.qcReports[i].images[k].length > 0
                 /\ product.qcReports[i].images[k].length > MinImageLength}} :
    i \in 1..Len(product.qcReports)}

\* cleanProduct: the metadata JSON, images replaced by placeholders.
CleanProduct(product) ==
  [product EXCEPT
     !.mainImage = StoredMarker,
     !.qcReports = [i \in 1..Len(product.qcReports) |->
                      [product.qcReports[i] EXCEPT !.images = <<>>]]]

\* Mutant: a row that exists is left as it is (insert, conflicts ignored).
UpsertProductKeepExisting(tbl, product) ==
  [id \in DOMAIN tbl \cup {product.id} |->
     IF id \in DOMAIN tbl THEN tbl[id] ELSE CleanProduct(product)]

\* supabase.from('products').upsert({id, content, ...})
UpsertProduct(tbl, product) ==
  [id \in DOMAIN tbl \cup {product.id} |->
     IF id = product.id THEN CleanProduct(product) ELSE tbl[id]]

SameKey(a, b) == a.pid = b.pid /\ a.rid = b.rid /\ a.idx = b.idx

\* supabase.from('product_images').upsert(rows, {onConflict: 'product_id, report_id, image_index'})
UpsertImages(tbl, rows) ==
  {r \in tbl : ~\E n \in rows : SameKey(r, n)} \cup rows

\* supabase.from('products').delete().in('id', ids), with the CASCADE on
\* product_images.product_id.
DeleteRows(tbl, ids) == [id \in DOMAIN tbl \ ids |-> tbl[id]]
CascadeImages(tbl, ids) == {r \in tbl : r.pid \notin ids}

\* reportImages.filter(Boolean) over the sparse array built from the rows
\* of one (product_id, report_id): the data in index order, gaps skipped.
RECURSIVE InIndexOrder(_)
InIndexOrder(rows) ==
  IF rows = {} THEN <<>>
  ELSE LET first == CHOOSE r \in rows : \A o \in rows : r.idx <= o.idx
       IN  (IF first.data.length > 0 THEN <<first.data>> ELSE <<>>)
           \o InIndexOrder(rows \ {first})

RowsOf(imageRows, pid, rid) == {r \in imageRows : r.pid = pid /\ r.rid = rid}

\* Step 4 of fetchProducts for one metadata row.
Reassemble(id, content, imageRows) ==
  LET mainRows == {r \in RowsOf(imageRows, id, MainReportId) :
                     r.idx = 0 /\ r.data.length > 0}
      withMain == IF mainRows # {}
                  THEN [content EXCEPT !.id = id,
                                       !.mainImage = (CHOOSE r \in mainRows : TRUE).data]
                  ELSE [content EXCEPT !.id = id]
  IN  [withMain EXCEPT !.qcReports =
         [i \in 1..Len(content.qcReports) |->
            LET report == content.qcReports[i]
                rows   == RowsOf(imageRows, id, report.id)
            IN  IF rows # {}
                THEN [report EXCEPT !.images = InIndexOrder(rows)]
                ELSE report]]

\* The orders .order('created_at', {ascending: false}) can return the ids in.
RowOrders(tbl) ==
  {o \in [1..Cardinality(DOMAIN tbl) -> DOMAIN tbl] :
     /\ \A i, j \in DOMAIN o : i # j => o[i] # o[j]
     /\ \A i, j \in DOMAIN o : i < j => tbl[o[i]].createdAt >= tbl[o[j]].createdAt}

\* loadedProducts: productRows (ids in result order, with the table they were
\* read from) spliced with imageRows.
LoadedProducts(order, tbl, imageRows) ==
  [i \in 1..Len(order) |-> Reassemble(order[i], tbl[order[i]], imageRows)]

-----------------------------------------------------------------------------
(* AI gateway: what the two callers make of generateWithFallback's result.   *)

\* A response text is a sequence of tokens; "{" and "}" are the braces the
\* callers search for.
NoText   == <<>>
Prose    == <<"Sorry,", "no", "analysis">>
BadJson  == <<"{", "status:", "}">>
Reversed == <<"}", "and", "{">>
QcJson   == <<"Report:", "{", "qc-result", "}", "Done">>
IdJson   == <<"{", "details", "}">>

\* text.indexOf(tok), text.lastIndexOf(tok): 0-based, -1 when absent.
IndexOf(text, tok) ==
  IF \E i \in 1..Len(text) : text[i] = tok
  THEN (CHOOSE i \in 1..Len(text) :
          text[i] = tok /\ \A j \in 1..(i - 1) : text[j] # tok) - 1
  ELSE -1

LastIndexOf(text, tok) ==
  IF \E i \in 1..Len(text) : text[i] = tok
  THEN (CHOOSE i \in 1..Len(text) :
          text[i] = tok /\ \A j \in (i + 1)..Len(text) : text[j] # tok) - 1
  ELSE -1

\* text.substring(a, b): the arguments are swapped when a > b.
Substring(text, a, b) ==
  LET lo == IF a <= b THEN a ELSE b
      hi == IF a <= b THEN b ELSE a
  IN  SubSeq(text, lo + 1, hi)

\* JSON values as JSON.parse gives them: t is what typeof / Array.isArray /
\* === null tell apart, v the text of a primitive, items the elements of an
\* array. Of an object only the one property the code reads is kept, as
\* items[1]: details of a section, required of a followUp.
JUndefined   == [t |-> "undefined", v |-> "", items |-> <<>>]
JNull        == [t |-> "null", v |-> "", items |-> <<>>]
JString(s)   == [t |-> "string", v |-> s, items |-> <<>>]
JNumber(n)   == [t |-> "number", v |-> n, items |-> <<>>]
JBoolean(b)  == [t |-> "boolean", v |-> IF b THEN "true" ELSE "false", items |-> <<>>]
JArray(a)    == [t |-> "array", v |-> "", items |-> a]
JObject(x)   == [t |-> "object", v |-> "", items |-> <<x>>]

\* !!value
Truthy(j) ==
  CASE j.t \in {"undefined", "null"} -> FALSE
    [] j.t = "boolean" -> j.v = "true"
    [] j.t = "number"  -> j.v # "0"
    [] j.t = "string"  -> j.v # ""
    [] OTHER           -> TRUE

GoodSections == JArray(<<JObject(JArray(<<JString("stitching even")>>))>>)
GoodFollowUp == JObject(JBoolean(TRUE))

\* Answers of the model to the inspection prompt: sections and followUp as
\* the prompt asks for them, and the shapes a model gets wrong.
QcDocs ==
  { <<"qc-result", GoodSections, GoodFollowUp>>,
    <<"qc-details-string", JArray(<<JObject(JString("stitching even"))>>), GoodFollowUp>>,
    <<"qc-details-missing", JArray(<<JObject(JUndefined)>>), GoodFollowUp>>,
    <<"qc-details-number", JArray(<<JObject(JNumber("3"))>>), GoodFollowUp>>,
    <<"qc-details-numbers", JArray(<<JObject(JArray(<<JNumber("3")>>))>>), GoodFollowUp>>,
    <<"qc-section-null", JArray(<<JNull>>), GoodFollowUp>>,
    <<"qc-section-string", JArray(<<JString("ok")>>), GoodFollowUp>>,
    <<"qc-no-sections", JUndefined, GoodFollowUp>>,
    <<"qc-no-followup", GoodSections, JUndefined>>,
    <<"qc-followup-null", GoodSections, JNull>>,
    <<"qc-followup-yes", GoodSections, JObject(JString("yes"))>>,
    <<"qc-followup-zero", GoodSections, JObject(JNumber("0"))>>,
    <<"qc-followup-empty", GoodSections, JObject(JUndefined)>>,
    <<"qc-followup-text", GoodSections, JString("none")>> }

\* Links the model can put into its answer, and a productUrl / imageUrl that
\* is no link.
ModelUrl == Url("https://other.example/p", 23)
ModelImg == Url("https://other.example/i.png", 27)
NotALink == Str("n/a", 3)

\* The identification documents: the token that stands for the document, the
\* productUrl and the imageUrl it carries.
IdDocs ==
  {<<"details", EmptyStr, EmptyStr>>,
   <<"details-p", ModelUrl, EmptyStr>>,
   <<"details-i", EmptyStr, ModelImg>>,
   <<"details-pi", ModelUrl, ModelImg>>,
   <<"details-x", NotALink, NotALink>>}

\* JSON.parse: the spans that are JSON, and the value each denotes.
JsonParse(span) ==
  IF \E d \in QcDocs : span = <<"{", d[1], "}">>
  THEN LET d == CHOOSE d \in QcDocs : span = <<"{", d[1], "}">>
       IN  [ok |-> TRUE, value |-> [status |-> "PASS", overallScore |-> 92,
                                    summary |-> <<"Looks", "authentic">>,
                                    sections |-> d[2], followUp |-> d[3]]]
  ELSE IF \E d \in IdDocs : span = <<"{", d[1], "}">>
  THEN LET d == CHOOSE d \in IdDocs : span = <<"{", d[1], "}">>
       IN  [ok |-> TRUE, value |-> [sku |-> "SH-123", name |-> "Trail Runner",
                                    productUrl |-> d[2], imageUrl |-> d[3]]]
  ELSE [ok |-> FALSE, value |-> None]

\* Lines 215-232 / 375-392: locate the first '{' and the last '}' and parse
\* the span; which of the three throws is taken, if any.
ExtractJson(text) ==
  LET startIndex == IndexOf(text, "{")
      endIndex   == LastIndexOf(text, "}")
  IN  IF text = <<>> THEN [ok |-> FALSE, why |-> "no text", value |-> None]
      ELSE IF startIndex = -1 \/ endIndex = -1
      THEN [ok |-> FALSE, why |-> "no braces", value |-> None]
      ELSE LET parsed == JsonParse(Substring(text, startIndex, endIndex + 1))
           IN  IF parsed.ok THEN [ok |-> TRUE, why |-> "", value |-> parsed.value]
               ELSE [ok |-> FALSE, why |-> "not json", value |-> None]

\* What generateWithFallback hands its caller: a response, or the error of
\* the last call of the ladder.
Returned(text, chunks) ==
  [threw |-> FALSE, error |-> None, response |-> [text |-> text, chunks |-> chunks]]
Thrown(error) == [threw |-> TRUE, error |-> error, response |-> None]

Throw(message) == [threw |-> TRUE, message |-> message, value |-> None]
Return(value)  == [threw |-> FALSE, message |-> <<>>, value |-> value]

RECURSIVE FlatImages(_)
FlatImages(reports) ==
  IF reports = <<>> THEN <<>>
  ELSE Head(reports).images \o FlatImages(Tail(reports))

Reverse(s) == [i \in 1..Len(s) |-> s[Len(s) + 1 - i]]

\* [...new Set(images)]: first occurrences, in order.
Unique(images) ==
  SelectSeq([i \in 1..Len(images) |->
               IF \E j \in 1..(i - 1) : images[j] = images[i] THEN None ELSE images[i]],
            LAMBDA x : x # None)

\* .slice(-10)
HistoryWindow == 10
LastN(s, n) == IF Len(s) <= n THEN s ELSE SubSeq(s, Len(s) - n + 1, Len(s))

uniqueHistoryImages(previousReports) ==
  LastN(Unique(FlatImages(Reverse(previousReports))), HistoryWindow)

\* { inlineData: { mimeType, data } } for a data URI.
InlinePart(media) == [mimeType |-> media.mime, data |-> media.text]

SvgMime == "image/svg+xml"

\* img && img.startsWith('data:') && mimeType !== 'image/svg+xml'
SendableReference(img) ==
  img.length > 0 /\ img.scheme = "data" /\ img.mime # SvgMime

\* performQualityControl, lines 290-331 and 350-363: the inline parts of
\* fullParts, the main image first, then the history images, then the new
\* media.
inlineParts(mainProductImage, previousReports, newMediaFiles) ==
  LET history == SelectSeq(uniqueHistoryImages(previousReports), SendableReference)
  IN  (IF SendableReference(mainProductImage)
       THEN <<InlinePart(mainProductImage)>> ELSE <<>>)
      \o [i \in 1..Len(history) |-> InlinePart(history[i])]
      \o [i \in 1..Len(newMediaFiles) |-> InlinePart(newMediaFiles[i])]

\* section.details of one element of result.sections ({...section} of a
\* primitive has no details).
DetailsOf(section) == IF section.t = "object" THEN section.items[1] ELSE JUndefined

\* Array.isArray(section.details) ? section.details
\*   : typeof section.details === 'string' ? [section.details] : []
normalizeDetails(details) ==
  IF details.t = "array" THEN details
  ELSE IF details.t = "string" THEN JArray(<<details>>)
  ELSE JArray(<<>>)

\* Lines 394-404: the sections of the report; reading details of null is a
\* TypeError.
sectionsThrow(sections) ==
  sections.t = "array" /\ \E i \in 1..Len(sections.items) : sections.items[i].t = "null"

normalizeSections(sections) ==
  IF sections.t = "array"
  THEN JArray([i \in 1..Len(sections.items) |->
                 JObject(normalizeDetails(DetailsOf(sections.items[i])))])
  ELSE sections

\* Lines 406-410. Writing required on a primitive is a TypeError (the module
\* is an ES module, so strict).
followUpThrows(followUp) == Truthy(followUp) /\ followUp.t \notin {"object", "array"}

normalizeFollowUp(followUp) ==
  IF ~Truthy(followUp) THEN JObject(JBoolean(FALSE))
  ELSE IF followUp.t = "object" THEN JObject(JBoolean(Truthy(followUp.items[1])))
  ELSE JObject(JBoolean(FALSE))

\* performQualityControl, from the gateway's result g on; t is Date.now(),
\* and the report's id is Date.now().toString().
performQualityControl(g, previousReports, newMediaFiles, t) ==
  IF g.threw THEN Throw(g.error.message)
  ELSE LET json == ExtractJson(g.response.text)
       IN  IF json.why = "no text" THEN Throw(<<"No QC response from Gemini">>)
           ELSE IF json.why = "no braces"
           THEN Throw(<<"Failed to find JSON object in QC response">>)
           ELSE IF json.why = "not json" THEN Throw(<<"Failed to parse QC report">>)
           ELSE IF sectionsThrow(json.value.sections)
           THEN Throw(<<"Cannot read properties of null (reading 'details')">>)
           ELSE IF followUpThrows(json.value.followUp)
           THEN Throw(<<"Cannot create property 'required'">>)
           ELSE Return([id |-> ToString(t),
                        status |-> json.value.status,
                        overallScore |-> json.value.overallScore,
                        summary |-> json.value.summary,
                        sections |-> normalizeSections(json.value.sections),
                        followUp |-> normalizeFollowUp(json.value.followUp),
                        images |-> uniqueHistoryImages(previousReports) \o newMediaFiles])

\* chunks.find(c => c.web?.uri && c.web.uri.match(/\.(jpeg|jpg|gif|png|webp)$/i))
FirstImageChunk(chunks) ==
  LET hits == {i \in 1..Len(chunks) : chunks[i].imageExt}
  IN  IF hits = {} THEN EmptyStr
      ELSE chunks[CHOOSE i \in hits : \A j \in hits : i <= j].uri

\* chunks.find(c => c.web?.uri)
FirstWebChunk(chunks) == IF chunks = <<>> THEN EmptyStr ELSE chunks[1].uri

SearchUrl == Url("https://www.google.com/search?q=", 60)

\* identifyProductFromMedia, from the gateway's result g and the scraper's
\* ogImage (EmptyStr: null) on.
identifyProductFromMedia(g, input, isUrl, ogImage) ==
  IF g.threw THEN Throw(g.error.message)
  ELSE LET json   == ExtractJson(g.response.text)
           chunks == g.response.chunks
       IN  IF json.why = "no text" THEN Throw(<<"No response from Gemini">>)
           ELSE IF json.why = "no braces"
           THEN Throw(<<"Failed to find JSON object in AI response">>)
           ELSE IF json.why = "not json"
           THEN Throw(<<"Failed to parse product details from AI response.">>)
           ELSE LET details == json.value
                IN  IF isUrl
                    THEN Return([details EXCEPT
                           !.productUrl = input,
                           !.imageUrl =
                              IF ogImage.length > 0 THEN ogImage
                              ELSE IF details.imageUrl.length > 0
                                      /\ details.imageUrl.scheme = "http"
                              THEN details.imageUrl
                              ELSE FirstImageChunk(chunks)])
                    ELSE IF details.productUrl.length = 0
                            \/ details.productUrl.scheme # "http"
                    THEN Return([details EXCEPT
                           !.productUrl =
                              IF FirstWebChunk(chunks).length > 0
                              THEN FirstWebChunk(chunks)
                              ELSE SearchUrl])
                    ELSE Return(details)

-----------------------------------------------------------------------------
(* Lifecycle orchestrator: the pure parts of useProductManager.              *)

Ids(prev) == {prev[i].id : i \in 1..Len(prev)}
Find(prev, id) == prev[CHOOSE i \in 1..Len(prev) : prev[i].id = id]
IsActive(status) == status \in {"identifying", "analyzing"}
RemoveAt(s, k) == [i \in 1..(Len(s) - 1) |-> IF i < k THEN s[i] ELSE s[i + 1]]

PlaceholderDetails(rawUrl) ==
  [sku |-> "PENDING...", name |-> "Identifying Product...",
   productUrl |-> rawUrl, imageUrl |-> EmptyStr]

\* progress: 10 of newProduct, progress: 5 of handleStartQC, progress: 100.
InitialProgress == 10
QcStartProgress == 5
DoneProgress == 100

\* Mutant: the product is inserted as already idle.
newProductIdle(tempId, base64Image, rawUrl, t) ==
  [id |-> tempId, mainImage |-> base64Image, details |-> PlaceholderDetails(rawUrl),
   qcReports |-> <<>>, createdAt |-> t, processingStatus |-> "idle",
   progress |-> InitialProgress, error |-> NoError]

newProduct(tempId, base64Image, rawUrl, t) ==
  [id |-> tempId, mainImage |-> base64Image, details |-> PlaceholderDetails(rawUrl),
   qcReports |-> <<>>, createdAt |-> t, processingStatus |-> "identifying",
   progress |-> InitialProgress, error |-> NoError]

\* { ...p, ...updates }
Merge(p, updates) ==
  [f \in DOMAIN p |-> IF f \in DOMAIN updates THEN updates[f] ELSE p[f]]

\* Mutant: an update for an id that is not in the collection inserts it.
updateProductUpsert(prev, id, updates) ==
  IF id \in Ids(prev)
  THEN [i \in 1..Len(prev) |->
          IF prev[i].id = id THEN Merge(prev[i], updates) ELSE prev[i]]
  ELSE <<Merge(newProduct(id, EmptyStr, EmptyStr, 0), updates)>> \o prev

\* updateProduct's updater: prev.map(p => p.id === id ? {...p, ...updates} : p)
updateProduct(prev, id, updates) ==
  [i \in 1..Len(prev) |->
     IF prev[i].id = id THEN Merge(prev[i], updates) ELSE prev[i]]

SaveRequest(product) ==
  [type |-> "save", stage |-> "products", product |-> product, ids |-> {}]
DeleteRequest(ids) ==
  [type |-> "delete", stage |-> "products", product |-> None, ids |-> ids]

\* Mutant: the updater saves every product it maps over.
SavesForEvery(next, id) == [i \in 1..Len(next) |-> SaveRequest(next[i])]

\* The saveProductToDb calls made inside an updater that maps next over prev:
\* one per product of id, with its new value.
SavesFor(next, id) ==
  LET hit == SelectSeq(next, LAMBDA p : p.id = id)
  IN  [i \in 1..Len(hit) |-> SaveRequest(hit[i])]

\* Mutant: the success updater also clears the error.
prependReportClearingError(prev, id, report) ==
  [i \in 1..Len(prev) |->
     IF prev[i].id = id
     THEN [prev[i] EXCEPT !.qcReports = <<report>> \o prev[i].qcReports,
                          !.processingStatus = "idle",
                          !.progress = DoneProgress,
                          !.error = NoError]
     ELSE prev[i]]

\* Mutant: the success updater stores the new report alone.
prependReportAlone(prev, id, report) ==
  [i \in 1..Len(prev) |->
     IF prev[i].id = id
     THEN [prev[i] EXCEPT !.qcReports = <<report>>,
                          !.processingStatus = "idle",
                          !.progress = DoneProgress]
     ELSE prev[i]]

\* handleStartQC's success updater (lines 567-582).
prependReport(prev, id, report) ==
  [i \in 1..Len(prev) |->
     IF prev[i].id = id
     THEN [prev[i] EXCEPT !.qcReports = <<report>> \o prev[i].qcReports,
                          !.processingStatus = "idle",
                          !.progress = DoneProgress]
     ELSE prev[i]]

\* simulateProgress: let current = 10; the ticker's ceiling; Math.random() * 10
\* in tenths.
TickerStart == 10
TickerCeiling == 90
TickSteps == {95}
\* Math.round of a value held in tenths.
Round(tenths) == (tenths + 5) \div 10

\* Mutant: the tick writes progress whatever the product's status.
tickUpdateAnyStatus(prev, productId, current) ==
  [i \in 1..Len(prev) |->
     IF prev[i].id = productId
     THEN [prev[i] EXCEPT !.progress = Round(current)]
     ELSE prev[i]]

\* Mutant: the tick writes progress to every product that is being processed.
tickUpdateEveryActive(prev, productId, current) ==
  [i \in 1..Len(prev) |->
     IF IsActive(prev[i].processingStatus)
     THEN [prev[i] EXCEPT !.progress = Round(current)]
     ELSE prev[i]]

\* The updater of one tick, for a ticker whose counter (in tenths) is current.
tickUpdate(prev, productId, current) ==
  IF /\ productId \in Ids(prev)
     /\ IsActive(Find(prev, productId).processingStatus)
  THEN [i \in 1..Len(prev) |->
          IF prev[i].id = productId
          THEN [prev[i] EXCEPT !.progress = Round(current)]
          ELSE prev[i]]
  ELSE prev

\* Mutant: the success update never replaces mainImage.
identifySuccessUpdatesKeepImage(details, isUrlMode) ==
  [details |-> details, processingStatus |-> "idle", progress |-> DoneProgress]

\* The identification's success update (lines 516-526).
identifySuccessUpdates(details, isUrlMode) ==
  IF isUrlMode /\ details.imageUrl.length > 0
  THEN [details |-> details, processingStatus |-> "idle", progress |-> DoneProgress,
        mainImage |-> details.imageUrl]
  ELSE [details |-> details, processingStatus |-> "idle", progress |-> DoneProgress]

\* Mutant: the failure update records the error and leaves the status.
identifyFailureUpdatesKeepStatus(message, rawUrl) ==
  [error |-> <<"Failed to identify product. ">> \o message,
   details |-> [PlaceholderDetails(rawUrl) EXCEPT !.name = "Identification Failed",
                                                  !.sku = "ERROR"]]

\* Mutant: the failure update also resets progress.
identifyFailureUpdatesResetProgress(message, rawUrl) ==
  [processingStatus |-> "error",
   error |-> <<"Failed to identify product. ">> \o message,
   progress |-> 0,
   details |-> [PlaceholderDetails(rawUrl) EXCEPT !.name = "Identification Failed",
                                                  !.sku = "ERROR"]]

\* The identification's failure update (lines 527-537).
identifyFailureUpdates(message, rawUrl) ==
  [processingStatus |-> "error",
   error |-> <<"Failed to identify product. ">> \o message,
   details |-> [PlaceholderDetails(rawUrl) EXCEPT !.name = "Identification Failed",
                                                  !.sku = "ERROR"]]

\* The inspection's failure update (lines 586-589).
qcFailureUpdates(message) ==
  [processingStatus |-> "error", error |-> <<"QC Inspection Failed: ">> \o message]

-----------------------------------------------------------------------------
(* Lifecycle orchestrator: the handlers, split at their awaits.              *)

\* Date.now() read by a handler: the clock may have advanced since the last read.
Clock == {t \in {now, now + 1} : t <= MaxNow}

\* The errors the ladder can end with, and the responses it can return.
FinalErrors == {[message |-> <<>>, status |-> 503, code |-> 0]}
IdTexts == {Prose, IdJson}
QcTexts == {Prose, QcJson}
IdGatewayResults ==
  {Thrown(e) : e \in FinalErrors} \cup {Returned(text, <<>>) : text \in IdTexts}
QcGatewayResults ==
  {Thrown(e) : e \in FinalErrors} \cup {Returned(text, <<>>) : text \in QcTexts}

Ticker(productId) == [pid |-> productId, current |-> TickerStart * 10, ticks |-> 0]

\* History of removals: a callback or tick that runs for a removed id.
NoteStale(pid) ==
  stale' = IF pid \in deleted /\ pid \notin Ids(products)
           THEN stale \cup {pid} ELSE stale

\* handleStartIdentification(file, url), from the optimistic insert to the
\* await on identifyProductFromMedia, whose generateWithFallback run is call. kind "file": a file was given and
\* fileToBase64 has resolved; kind "url": only a URL was given; any other
\* kind: neither was given.
StartIdentificationCalling(kind, call) ==
  /\ nextId < MaxProducts
  /\ started < MaxOps
  /\ Len(pending) < MaxPending
  /\ \E t \in Clock :
       LET tempId  == nextId + 1
           rawUrl  == IF kind = "url" THEN InputUrl ELSE EmptyStr
           image   == IF kind = "file" THEN PhotoA
                      ELSE IF kind = "url" THEN SvgPlaceholder ELSE EmptyStr
           product == newProduct(tempId, image, rawUrl, t)
       IN  /\ now' = t
           /\ nextId' = tempId
           /\ products' = <<product>> \o products
           /\ pending' = Append(pending, SaveRequest(product))
           /\ tickers' = Append(tickers, Ticker(tempId))
           /\ ops' = Append(ops, [kind |-> "identify", pid |-> tempId,
                                  isUrlMode |-> (kind = "url"),
                                  input |-> IF kind = "file" THEN image ELSE rawUrl,
                                  snapshot |-> <<>>, media |-> <<>>, parts |-> <<>>,
                                  t0 |-> t])
  /\ started' = started + 1
  /\ gw' = call
  /\ UNCHANGED <<dbProducts, dbImages, fetch, deleted, stale, loaded, ui>>

\* The same with the gateway's run left out of the picture.
StartIdentification(kind) == StartIdentificationCalling(kind, gw)

\* identifyProductFromMedia settles: the rest of handleStartIdentification.
\* g: what generateWithFallback gave; ogImage: what the scraper resolved.
IdentifyResolves(k, g, ogImage) ==
  /\ k \in 1..Len(ops)
  /\ ops[k].kind = "identify"
  /\ ogImage.length > 0 => ops[k].isUrlMode
  /\ LET op      == ops[k]
         result  == identifyProductFromMedia(g, op.input, op.isUrlMode, ogImage)
         rawUrl  == IF op.isUrlMode THEN op.input ELSE EmptyStr
         updates == IF result.threw
                    THEN identifyFailureUpdates(result.message, rawUrl)
                    ELSE identifySuccessUpdates(result.value, op.isUrlMode)
         next    == updateProduct(products, op.pid, updates)
         saves   == SavesFor(next, op.pid)
     IN  /\ Len(pending) + Len(saves) <= MaxPending
         /\ products' = next
         /\ pending' = pending \o saves
         /\ NoteStale(op.pid)
  /\ ops' = RemoveAt(ops, k)
  /\ UNCHANGED <<gw, nextId, started, now, tickers, dbProducts, dbImages, fetch,
                 deleted, loaded, ui>>

\* handleStartQC(product, files, isExpertMode), up to its first await; product
\* is the collection's current value of the selected product.
StartQCWith(pid, newMediaBase64) ==
  /\ pid \in Ids(products)
  /\ started < MaxOps
  /\ LET product == Find(products, pid)
         next    == updateProduct(products, pid,
                      [processingStatus |-> "analyzing", progress |-> QcStartProgress])
         saves   == SavesFor(next, pid)
     IN  /\ Len(pending) + Len(saves) <= MaxPending
         /\ products' = next
         /\ pending' = pending \o saves
         /\ ops' = Append(ops, [kind |-> "qc", pid |-> pid, isUrlMode |-> FALSE,
                                input |-> EmptyStr,
                                snapshot |-> product.qcReports,
                                media |-> newMediaBase64,
                                parts |-> inlineParts(product.mainImage,
                                                      product.qcReports, newMediaBase64),
                                t0 |-> now])
  /\ tickers' = Append(tickers, Ticker(pid))
  /\ started' = started + 1
  /\ UNCHANGED <<gw, nextId, now, dbProducts, dbImages, fetch, deleted, stale, loaded, ui>>

\* The same with one photograph as the new media.
StartQC(pid) == StartQCWith(pid, <<PhotoB>>)

\* performQualityControl settles, reading Date.now() as t: the rest of
\* handleStartQC.
QCResolvesAt(k, g, t) ==
  /\ k \in 1..Len(ops)
  /\ ops[k].kind = "qc"
  /\ LET op     == ops[k]
         result == performQualityControl(g, op.snapshot, op.media, t)
         next   == IF result.threw
                   THEN updateProduct(products, op.pid, qcFailureUpdates(result.message))
                   ELSE prependReport(products, op.pid, result.value)
         saves  == SavesFor(next, op.pid)
     IN  /\ Len(pending) + Len(saves) <= MaxPending
         /\ products' = next
         /\ pending' = pending \o saves
         /\ now' = IF result.threw THEN now ELSE t
         /\ NoteStale(op.pid)
  /\ ops' = RemoveAt(ops, k)
  /\ UNCHANGED <<gw, nextId, started, tickers, dbProducts, dbImages, fetch,
                 deleted, loaded, ui>>

QCResolves(k, g) == \E t \in Clock : QCResolvesAt(k, g, t)

\* Mutant: the interval is cleared only by the updater, never at the ceiling.
clearIntervalByUpdaterOnly(over, applies) == ~applies

\* Whether one firing calls clearInterval: the counter went over the ceiling,
\* or the updater found the product absent or not being processed.
clearInterval(over, applies) == over \/ ~applies

\* One firing of a simulateProgress interval, Math.random() * 10 being one of
\* steps (in tenths), for a ticker that has written fewer than maxTicks times.
TickBy(k, steps, maxTicks) ==
  /\ k \in 1..Len(tickers)
  /\ \E step \in steps :
       LET tk      == tickers[k]
           raw     == tk.current + step
           over    == raw > TickerCeiling * 10
           current == IF over THEN TickerCeiling * 10 ELSE raw
           applies == /\ tk.pid \in Ids(products)
                      /\ IsActive(Find(products, tk.pid).processingStatus)
       IN  /\ applies => tk.ticks < maxTicks
           /\ products' = tickUpdate(products, tk.pid, current)
           /\ tickers' = IF clearInterval(over, applies)
                         THEN RemoveAt(tickers, k)
                         ELSE [tickers EXCEPT ![k].current = current,
                                              ![k].ticks = tk.ticks + 1]
           /\ NoteStale(tk.pid)
  /\ UNCHANGED <<gw, nextId, started, now, ops, dbProducts, dbImages, pending,
                 fetch, deleted, loaded, ui>>

Tick(k) == TickBy(k, TickSteps, MaxTicks)

\* handleDeleteSelected(idsToDelete) for a non-empty selection.
DeleteSelected(idsToDelete) ==
  /\ idsToDelete # {}
  /\ idsToDelete \subseteq Ids(products)
  /\ Len(pending) < MaxPending
  /\ products' = SelectSeq(products, LAMBDA p : p.id \notin idsToDelete)
  /\ pending' = Append(pending, DeleteRequest(idsToDelete))
  /\ deleted' = deleted \cup idsToDelete
  /\ UNCHANGED <<gw, nextId, started, now, ops, tickers, dbProducts, dbImages,
                 fetch, stale, loaded, ui>>

-----------------------------------------------------------------------------
(* Record store: the requests of saveProductToDb, deleteProductsFromDb and   *)
(* fetchProducts completing at the store, in any order.                      *)

EmptyTable == [id \in {} |-> None]

\* Step 3 of saveProductToDb lands: the metadata row is upserted, and step 4
\* is sent when there are image rows.
SaveProductsDone(k) ==
  /\ k \in 1..Len(pending)
  /\ pending[k].type = "save"
  /\ pending[k].stage = "products"
  /\ dbProducts' = UpsertProduct(dbProducts, pending[k].product)
  /\ pending' = IF ImageRows(pending[k].product) = {}
                THEN RemoveAt(pending, k)
                ELSE [pending EXCEPT ![k].stage = "images"]
  /\ UNCHANGED <<gw, dbImages, fetch, loaded, ui>>
  /\ UNCHANGED memVars

\* Mutant: the catch block raises the dialog whatever the code.
alertsOnAnyCode(code) == TRUE

\* The catch block of saveProductToDb: if (error.code !== '23505') alert(...)
alertsOn(code) == code # UniqueViolation

\* The dialogs after saveProductToDb caught an error with this code.
Caught(code) == [ui EXCEPT !.alerts = ui.alerts + (IF alertsOn(code) THEN 1 ELSE 0)]

\* Step 4 of saveProductToDb lands: the image rows are upserted, unless the
\* product row they reference is gone (the foreign key rejects them, and the
\* catch block gets that error).
SaveImagesDone(k) ==
  /\ k \in 1..Len(pending)
  /\ pending[k].type = "save"
  /\ pending[k].stage = "images"
  /\ IF pending[k].product.id \in DOMAIN dbProducts
     THEN /\ dbImages' = UpsertImages(dbImages, ImageRows(pending[k].product))
          /\ ui' = ui
     ELSE /\ dbImages' = dbImages
          /\ ui' = Caught(ForeignKeyViolation)
  /\ pending' = RemoveAt(pending, k)
  /\ UNCHANGED <<gw, dbProducts, fetch, loaded>>
  /\ UNCHANGED memVars

\* Step 3 of saveProductToDb fails with an error of this code: nothing is
\* written, step 4 is not sent.
SaveProductsFails(k, code) ==
  /\ k \in 1..Len(pending)
  /\ pending[k].type = "save"
  /\ pending[k].stage = "products"
  /\ ui' = Caught(code)
  /\ pending' = RemoveAt(pending, k)
  /\ UNCHANGED <<gw, dbProducts, dbImages, fetch, loaded>>
  /\ UNCHANGED memVars

\* Step 4 of saveProductToDb fails with an error of this code.
SaveImagesFails(k, code) ==
  /\ k \in 1..Len(pending)
  /\ pending[k].type = "save"
  /\ pending[k].stage = "images"
  /\ ui' = Caught(code)
  /\ pending' = RemoveAt(pending, k)
  /\ UNCHANGED <<gw, dbProducts, dbImages, fetch, loaded>>
  /\ UNCHANGED memVars

\* deleteProductsFromDb's delete fails: console.error, nothing else.
DeleteFails(k) ==
  /\ k \in 1..Len(pending)
  /\ pending[k].type = "delete"
  /\ pending' = RemoveAt(pending, k)
  /\ UNCHANGED <<gw, dbProducts, dbImages, fetch, loaded, ui>>
  /\ UNCHANGED memVars

\* deleteProductsFromDb's delete lands; the image rows go with the cascade.
DeleteDone(k) ==
  /\ k \in 1..Len(pending)
  /\ pending[k].type = "delete"
  /\ dbProducts' = DeleteRows(dbProducts, pending[k].ids)
  /\ dbImages' = CascadeImages(dbImages, pending[k].ids)
  /\ pending' = RemoveAt(pending, k)
  /\ UNCHANGED <<gw, fetch, loaded, ui>>
  /\ UNCHANGED memVars

FetchIdle == [pc |-> "done", order |-> <<>>, tbl |-> EmptyTable]

\* fetchProducts, step 1: the select on products resolves (failed: with an
\* error).
FetchRows(failed) ==
  /\ fetch.pc = "rows"
  /\ IF failed
     THEN /\ fetch' = FetchIdle
          /\ UNCHANGED products
     ELSE IF DOMAIN dbProducts = {}
     THEN /\ fetch' = FetchIdle
          /\ products' = <<>>
     ELSE /\ \E order \in RowOrders(dbProducts) :
               fetch' = [pc |-> "images", order |-> order, tbl |-> dbProducts]
          /\ UNCHANGED products
  /\ UNCHANGED <<gw, nextId, started, now, ops, tickers, dbProducts, dbImages,
                 pending, deleted, stale, loaded, ui>>

\* fetchProducts, steps 2-4: the select on product_images resolves (failed:
\* with an error, imageRows is null) and the collection is replaced.
FetchImages(failed) ==
  /\ fetch.pc = "images"
  /\ LET imageRows == IF failed THEN {}
                      ELSE {r \in dbImages : r.pid \in Range(fetch.order)}
     IN  products' = LoadedProducts(fetch.order, fetch.tbl, imageRows)
  /\ fetch' = FetchIdle
  /\ UNCHANGED <<gw, nextId, started, now, ops, tickers, dbProducts, dbImages,
                 pending, deleted, stale, loaded, ui>>

-----------------------------------------------------------------------------
(* Spec: the orchestrator of a signed-in user (userId and apiKey set), from  *)
(* the moment the mount effect's fetchProducts has completed on the user's   *)
(* still empty store. SpecMount starts one step earlier, with that fetch in  *)
(* flight, and follows a single product.                                     *)

UiIdle == [alerts |-> 0, rejected |-> 0]

MemIdle ==
  /\ products = <<>>
  /\ nextId = 0
  /\ started = 0
  /\ now = 0
  /\ ops = <<>>
  /\ tickers = <<>>
  /\ deleted = {}
  /\ stale = {}

DbIdle ==
  /\ dbProducts = EmptyTable
  /\ dbImages = {}
  /\ pending = <<>>

Init ==
  /\ gw = GwIdle
  /\ MemIdle
  /\ DbIdle
  /\ fetch = FetchIdle
  /\ loaded = None
  /\ ui = UiIdle

Next ==
  \/ \E kind \in {"file", "url"} : StartIdentification(kind)
  \/ \E k \in 1..MaxOps, g \in IdGatewayResults, og \in {EmptyStr, OgUrl} :
       IdentifyResolves(k, g, og)
  \/ \E pid \in 1..MaxProducts : StartQC(pid)
  \/ \E k \in 1..MaxOps, g \in QcGatewayResults : QCResolves(k, g)
  \/ \E k \in 1..MaxOps : Tick(k)
  \/ \E ids \in SUBSET (1..MaxProducts) : DeleteSelected(ids)
  \/ \E k \in 1..MaxPending : SaveProductsDone(k)
  \/ \E k \in 1..MaxPending : SaveImagesDone(k)
  \/ \E k \in 1..MaxPending : DeleteDone(k)

Spec == Init /\ [][Next]_vars

\* What an earlier session left in the store when its tab was closed during
\* an identification, after the placeholder save had landed.
LeftProduct == newProduct(1, PhotoA, EmptyStr, 0)

InitMount ==
  /\ gw = GwIdle
  /\ products = <<>>
  /\ started = 0
  /\ now = 0
  /\ ops = <<>>
  /\ tickers = <<>>
  /\ deleted = {}
  /\ stale = {}
  /\ pending = <<>>
  /\ \/ /\ nextId = 0
        /\ dbProducts = EmptyTable
        /\ dbImages = {}
     \/ /\ nextId = 1
        /\ dbProducts = UpsertProduct(EmptyTable, LeftProduct)
        /\ dbImages = UpsertImages({}, ImageRows(LeftProduct))
  /\ fetch = [pc |-> "rows", order |-> <<>>, tbl |-> EmptyTable]
  /\ loaded = None
  /\ ui = UiIdle

NextMount ==
  \/ \E kind \in {"file", "url"} :
       nextId = 0 /\ started < MountOps /\ StartIdentification(kind)
  \/ \E k \in 1..MaxOps, g \in IdGatewayResults, og \in {EmptyStr, OgUrl} :
       IdentifyResolves(k, g, og)
  \/ \E pid \in 1..MaxProducts : started < MountOps /\ StartQC(pid)
  \/ \E k \in 1..MaxOps, g \in QcGatewayResults : QCResolves(k, g)
  \/ \E k \in 1..MaxOps : Tick(k)
  \/ \E ids \in SUBSET (1..MaxProducts) : DeleteSelected(ids)
  \/ \E k \in 1..MaxPending : SaveProductsDone(k)
  \/ \E k \in 1..MaxPending : SaveImagesDone(k)
  \/ \E k \in 1..MaxPending : DeleteDone(k)
  \/ \E failed \in BOOLEAN : FetchRows(failed)
  \/ \E failed \in BOOLEAN : FetchImages(failed)

SpecMount == InitMount /\ [][NextMount]_vars

\* What happens without the user: AI calls settle, store requests complete,
\* the mount fetch completes, intervals fire.
Settles ==
  \/ \E k \in 1..MaxOps, g \in IdGatewayResults, og \in {EmptyStr, OgUrl} :
       IdentifyResolves(k, g, og)
  \/ \E k \in 1..MaxOps, g \in QcGatewayResults : QCResolves(k, g)
  \/ \E k \in 1..MaxOps : Tick(k)
  \/ \E k \in 1..MaxPending : SaveProductsDone(k)
  \/ \E k \in 1..MaxPending : SaveImagesDone(k)
  \/ \E k \in 1..MaxPending : DeleteDone(k)
  \/ \E failed \in BOOLEAN : FetchRows(failed)
  \/ \E failed \in BOOLEAN : FetchImages(failed)

\* SpecMount in which every AI call settles and every request completes.
SpecMountFair == SpecMount /\ WF_vars(Settles)

-----------------------------------------------------------------------------
(* SpecUi: Spec with handleStartQC called only where the screens allow it.   *)

\* Mutant: the card opens a product and the button starts an inspection
\* whatever the product's status.
UiAllowsQCAnyStatus(pid) == pid \in Ids(products)

\* A card opens the product only when it is neither identifying nor analyzing
\* (ProductCard), and the inspection button is disabled while it is analyzing
\* (ProductQC).
UiAllowsQC(pid) ==
  /\ pid \in Ids(products)
  /\ ~IsActive(Find(products, pid).processingStatus)

NextUi ==
  \/ \E kind \in {"file", "url"} : StartIdentification(kind)
  \/ \E k \in 1..MaxOps, g \in IdGatewayResults, og \in {EmptyStr, OgUrl} :
       IdentifyResolves(k, g, og)
  \/ \E pid \in 1..MaxProducts : UiAllowsQC(pid) /\ StartQC(pid)
  \/ \E k \in 1..MaxOps, g \in QcGatewayResults : QCResolves(k, g)
  \/ \E k \in 1..MaxOps : Tick(k)
  \/ \E ids \in SUBSET (1..MaxProducts) : DeleteSelected(ids)
  \/ \E k \in 1..MaxPending : SaveProductsDone(k)
  \/ \E k \in 1..MaxPending : SaveImagesDone(k)
  \/ \E k \in 1..MaxPending : DeleteDone(k)

SpecUi == Init /\ [][NextUi]_vars

-----------------------------------------------------------------------------
(* SpecIdentify: one identification, with every answer of the model, every   *)
(* list of grounding chunks and every result of the scraper.                 *)

WebChunk == [uri |-> Url("https://shop.example/item", 25), imageExt |-> FALSE]
ImgChunk == [uri |-> Url("https://shop.example/item.webp", 30), imageExt |-> TRUE]
ChunkLists == {<<>>, <<WebChunk>>, <<ImgChunk>>, <<WebChunk, ImgChunk>>}

AllIdTexts == {<<"{", d[1], "}">> : d \in IdDocs} \cup {NoText, Prose, BadJson, Reversed}

AllIdGatewayResults ==
  {Thrown(e) : e \in FinalErrors}
  \cup {Returned(text, chunks) : text \in AllIdTexts, chunks \in ChunkLists}

NextIdentify ==
  \/ \E kind \in {"file", "url"} : nextId = 0 /\ StartIdentification(kind)
  \/ \E g \in AllIdGatewayResults, og \in {EmptyStr, OgUrl} : IdentifyResolves(1, g, og)
  \/ Tick(1)
  \/ SaveProductsDone(1)
  \/ SaveImagesDone(1)

SpecIdentify == Init /\ [][NextIdentify]_vars

-----------------------------------------------------------------------------
(* SpecInput: the requests as the screens make them, with a credential that  *)
(* may be missing and media that may be empty.                               *)

\* A request that was turned away; alerted: with an alert() dialog.
Reject(alerted) ==
  /\ ui.rejected < MaxRejected
  /\ ui' = [alerts   |-> ui.alerts + (IF alerted THEN 1 ELSE 0),
            rejected |-> ui.rejected + 1]
  /\ UNCHANGED <<gw, products, nextId, started, now, ops, tickers, dbProducts,
                 dbImages, pending, fetch, deleted, stale, loaded>>

\* Mutant: the run button passes an empty file list on.
handleRunQCAnyFiles(files) == TRUE

\* ProductQC.handleRunQC: if (files.length > 0) onStartQC(files, isExpertMode)
handleRunQC(files) == files > 0

\* ProductIdentifier.handleSubmit: the call it makes, if any.
handleSubmit(mode, file, url) ==
  IF mode = "upload" /\ file THEN "file"
  ELSE IF mode = "url" /\ url THEN "url"
  ELSE "none"

\* handleStartIdentification(file, url) with the hook's apiKey set or null.
handleStartIdentification(kind, apiKey) ==
  IF ~apiKey THEN Reject(TRUE) ELSE StartIdentification(kind)

\* handleStartQC(product, files, isExpertMode) with the hook's apiKey set or
\* null.
handleStartQC(pid, apiKey) ==
  IF ~apiKey THEN pid \in Ids(products) /\ Reject(TRUE) ELSE StartQC(pid)

\* The Identify button: handleSubmit, then the hook.
SubmitIdentification(mode, file, url, apiKey) ==
  IF handleSubmit(mode, file, url) = "none"
  THEN Reject(FALSE)
  ELSE handleStartIdentification(handleSubmit(mode, file, url), apiKey)

\* The Run QC button on the page of product pid, with files chosen files.
RunQC(pid, files, apiKey) ==
  IF ~handleRunQC(files)
  THEN pid \in Ids(products) /\ Reject(FALSE)
  ELSE handleStartQC(pid, apiKey)

NextInput ==
  \/ \E mode \in {"upload", "url"}, file \in BOOLEAN, url \in BOOLEAN, apiKey \in BOOLEAN :
       nextId = 0 /\ SubmitIdentification(mode, file, url, apiKey)
  \/ \E pid \in 1..MaxProducts, files \in 0..1, apiKey \in BOOLEAN :
       RunQC(pid, files, apiKey)
  \/ \E k \in 1..MaxOps, g \in IdGatewayResults, og \in {EmptyStr, OgUrl} :
       IdentifyResolves(k, g, og)
  \/ \E k \in 1..MaxOps, g \in QcGatewayResults : QCResolves(k, g)
  \/ \E k \in 1..MaxPending : SaveProductsDone(k)
  \/ \E k \in 1..MaxPending : SaveImagesDone(k)

SpecInput == Init /\ [][NextInput]_vars

-----------------------------------------------------------------------------
(* SpecQC: inspections of one product that has been identified and saved,    *)
(* started with or without regard to the screens, on a clock that advances   *)
(* by at least one tick during an AI call.                                   *)

IdentifiedProduct ==
  LET p == newProduct(1, PhotoA, EmptyStr, 0)
      d == identifyProductFromMedia(Returned(IdJson, <<>>), PhotoA, FALSE, EmptyStr).value
  IN  Merge(p, identifySuccessUpdates(d, FALSE))

\* The state with this one product in memory, its writes landed, nothing
\* outstanding.
InitWith(product) ==
  /\ gw = GwIdle
  /\ products = <<product>>
  /\ nextId = 1
  /\ started = 0
  /\ now = 0
  /\ ops = <<>>
  /\ tickers = <<>>
  /\ deleted = {}
  /\ stale = {}
  /\ dbProducts = UpsertProduct(EmptyTable, product)
  /\ dbImages = UpsertImages({}, ImageRows(product))
  /\ pending = <<>>
  /\ fetch = FetchIdle
  /\ loaded = None
  /\ ui = UiIdle

InitQC == InitWith(IdentifiedProduct)

\* Date.now() at the end of operation k, which began at t0.
QcClock(k) == {t \in {now, now + 1} : ops[k].t0 < t /\ t <= MaxQcNow}

\* The clock moves on while nothing else happens.
ClockTick ==
  /\ now < MaxQcNow
  /\ now' = now + 1
  /\ UNCHANGED <<gw, products, nextId, started, ops, tickers, dbProducts, dbImages,
                 pending, fetch, deleted, stale, loaded, ui>>

NextQC ==
  \/ StartQC(1)
  \/ \E k \in 1..MaxOps, g \in QcGatewayResults :
       k <= Len(ops) /\ \E t \in QcClock(k) : QCResolvesAt(k, g, t)
  \/ \E k \in 1..MaxOps : Tick(k)
  \/ ClockTick
  \/ \E k \in 1..MaxPending : SaveProductsDone(k)
  \/ \E k \in 1..MaxPending : SaveImagesDone(k)

SpecQC == InitQC /\ [][NextQC]_vars

-----------------------------------------------------------------------------
(* SpecTicker: one identification and its ticker, run up to the ceiling.     *)
(* setInterval fires the callback every 800 ms until clearInterval, and      *)
(* Math.random() * 10 is taken from the positive values of TickerSteps.      *)

TickerSteps == {50, 95}

TickerTick(k) == TickBy(k, TickerSteps, MaxTickerTicks)

NextTicker ==
  \/ \E kind \in {"file", "url"} : nextId = 0 /\ StartIdentification(kind)
  \/ \E g \in IdGatewayResults, ogImage \in {EmptyStr, OgUrl} : IdentifyResolves(1, g, ogImage)
  \/ TickerTick(1)
  \/ DeleteSelected({1})
  \/ \E k \in 1..MaxPending : SaveProductsDone(k)
  \/ \E k \in 1..MaxPending : SaveImagesDone(k)
  \/ \E k \in 1..MaxPending : DeleteDone(k)

SpecTicker == Init /\ [][NextTicker]_vars /\ WF_vars(TickerTick(1))

-----------------------------------------------------------------------------
(* SpecReports: SpecQC next to the identification of a second product.       *)

NextReports ==
  \/ NextQC
  \/ \E kind \in {"file", "url"} : StartIdentification(kind)
  \/ \E k \in 1..MaxOps, g \in IdGatewayResults, ogImage \in {EmptyStr, OgUrl} :
       IdentifyResolves(k, g, ogImage)

SpecReports == InitQC /\ [][NextReports]_vars

-----------------------------------------------------------------------------
(* SpecFailures: one product inserted, identified and removed, with store    *)
(* requests that succeed or fail.                                            *)

NextFailures ==
  \/ \E kind \in {"file", "url"} : nextId = 0 /\ StartIdentification(kind)
  \/ \E g \in IdGatewayResults, ogImage \in {EmptyStr, OgUrl} : IdentifyResolves(1, g, ogImage)
  \/ DeleteSelected({1})
  \/ \E k \in 1..MaxPending : SaveProductsDone(k)
  \/ \E k \in 1..MaxPending : SaveImagesDone(k)
  \/ \E k \in 1..MaxPending : DeleteDone(k)
  \/ \E k \in 1..MaxPending, code \in StoreErrorCodes : SaveProductsFails(k, code)
  \/ \E k \in 1..MaxPending, code \in StoreErrorCodes : SaveImagesFails(k, code)
  \/ \E k \in 1..MaxPending : DeleteFails(k)

SpecFailures == Init /\ [][NextFailures]_vars

-----------------------------------------------------------------------------
(* SpecCall: one identification together with its run of                     *)
(* generateWithFallback: the callback gets what the run ended with.          *)

\* What the finished run hands identifyProductFromMedia: the response, whose
\* text is text, or the error of the last call.
GatewayResult(text) ==
  IF gw.pc = "returned" THEN Returned(text, <<>>)
  ELSE Thrown(gw.errs[Len(gw.errs)])

CallResolves(text, ogImage) ==
  /\ gw.pc \in {"returned", "thrown"}
  /\ IdentifyResolves(1, GatewayResult(text), ogImage)

NextCall ==
  \/ \E kind \in {"file", "url"}, mode \in AiModes :
       nextId = 0 /\ StartIdentificationCalling(kind, GwStart(ModelOf(mode), ThinkingOf(mode)))
  \/ ops # <<>> /\ GwCallReturns /\ UNCHANGED <<memVars, dbVars, loaded, ui>>
  \/ \E error \in Errors :
       ops # <<>> /\ GwCallFails(error) /\ UNCHANGED <<memVars, dbVars, loaded, ui>>
  \/ \E text \in AllIdTexts, ogImage \in {EmptyStr, OgUrl} : CallResolves(text, ogImage)
  \/ \E k \in 1..MaxPending : SaveProductsDone(k)
  \/ \E k \in 1..MaxPending : SaveImagesDone(k)

SpecCall == Init /\ [][NextCall]_vars

-----------------------------------------------------------------------------
(* SpecMedia: inspections of one identified product with the files the file  *)
(* input (accept="image/*,video/*") lets through.                            *)

\* Files by what fileToBase64 looks at: file.type, whether the browser can
\* decode the file as an image (img.onload, else img.onerror), its content.
JpegFile    == [major |-> "image", type |-> "image/jpeg", decodes |-> TRUE,
                payload |-> "CCCC", length |-> 900000]
SvgFile     == [major |-> "image", type |-> SvgMime, decodes |-> TRUE,
                payload |-> "PHN2Zz", length |-> 2000]
BrokenSvg   == [major |-> "image", type |-> SvgMime, decodes |-> FALSE,
                payload |-> "PHN2Yg", length |-> 1800]
VideoFile   == [major |-> "video", type |-> "video/mp4", decodes |-> FALSE,
                payload |-> "AAAAIGZ0", length |-> 700000]
Files       == {JpegFile, SvgFile, BrokenSvg, VideoFile}

\* compressImage: canvas.toDataURL('image/jpeg', 0.6)
compressImage(file) == DataUri("image/jpeg", file.payload, 52000)

\* fileToBase64: the compressed JPEG for an image the browser decodes, else
\* FileReader.readAsDataURL, which keeps the file's type.
fileToBase64(file) ==
  IF file.major = "image" /\ file.decodes
  THEN compressImage(file)
  ELSE DataUri(file.type, file.payload, file.length)

\* The product of a URL-mode identification that found no image: mainImage is
\* still the placeholder.
UrlProduct ==
  LET p == newProduct(1, SvgPlaceholder, InputUrl, 0)
      d == identifyProductFromMedia(Returned(IdJson, <<>>), InputUrl, TRUE, EmptyStr).value
  IN  Merge(p, identifySuccessUpdates(d, TRUE))

InitMedia == \E product \in {IdentifiedProduct, UrlProduct} : InitWith(product)

NextMedia ==
  \/ \E file \in Files : UiAllowsQC(1) /\ StartQCWith(1, <<fileToBase64(file)>>)
  \/ \E k \in 1..MaxOps, g \in QcGatewayResults : QCResolves(k, g)
  \/ \E k \in 1..MaxPending : SaveProductsDone(k)
  \/ \E k \in 1..MaxPending : SaveImagesDone(k)

SpecMedia == InitMedia /\ [][NextMedia]_vars

-----------------------------------------------------------------------------
(* SpecParse: inspections of one identified product, with every answer of    *)
(* QcDocs.                                                                   *)

AllQcTexts == {<<"{", d[1], "}">> : d \in QcDocs} \cup {NoText, Prose, BadJson}

AllQcGatewayResults ==
  {Thrown(e) : e \in FinalErrors} \cup {Returned(text, <<>>) : text \in AllQcTexts}

NextParse ==
  \/ UiAllowsQC(1) /\ StartQC(1)
  \/ \E g \in AllQcGatewayResults : QCResolves(1, g)
  \/ \E k \in 1..MaxPending : SaveProductsDone(k)
  \/ \E k \in 1..MaxPending : SaveImagesDone(k)

SpecParse == InitQC /\ [][NextParse]_vars

-----------------------------------------------------------------------------
(* SpecLadder: one run of generateWithFallback.                              *)

InitLadder ==
  /\ gw \in {GwStart(modelName, useThinking) :
               modelName \in Models, useThinking \in BOOLEAN}
  /\ MemIdle
  /\ DbIdle
  /\ fetch = FetchIdle
  /\ loaded = None
  /\ ui = UiIdle

NextLadder ==
  \/ GwCallReturns /\ UNCHANGED <<memVars, dbVars, loaded, ui>>
  \/ \E error \in Errors : GwCallFails(error) /\ UNCHANGED <<memVars, dbVars, loaded, ui>>

SpecLadder == InitLadder /\ [][NextLadder]_vars

-----------------------------------------------------------------------------
(* SpecStore: one product saved, changed and loaded, one request at a time.  *)

ReportOne == [id |-> "1", status |-> "PASS", overallScore |-> 92,
              summary |-> <<"Looks", "authentic">>, images |-> <<PhotoB>>]
ReportTwo == [id |-> "2", status |-> "PASS", overallScore |-> 92,
              summary |-> <<"Looks", "authentic">>, images |-> <<PhotoB, PhotoA>>]

\* The products handleStartIdentification creates (file, URL, neither), with
\* the reports inspections have prepended since.
StoreProducts ==
  {[newProduct(1, image, IF image = SvgPlaceholder THEN InputUrl ELSE EmptyStr, 0)
      EXCEPT !.qcReports = reports, !.processingStatus = "idle",
             !.progress = DoneProgress] :
     image \in {PhotoA, SvgPlaceholder, EmptyStr},
     reports \in {<<>>, <<ReportOne>>, <<ReportTwo, ReportOne>>}}

InitStore ==
  /\ gw = GwIdle
  /\ products \in {<<p>> : p \in StoreProducts}
  /\ nextId = 1
  /\ started = 0
  /\ now = 0
  /\ ops = <<>>
  /\ tickers = <<>>
  /\ deleted = {}
  /\ stale = {}
  /\ DbIdle
  /\ fetch = FetchIdle
  /\ loaded = [pc |-> "dirty", agg |-> <<>>, saves |-> 0]
  /\ ui = UiIdle

storeOther == <<gw, nextId, started, now, ops, tickers, deleted, stale, pending, fetch, ui>>

\* saveProductToDb(products[1]), awaited to its end.
StSave ==
  /\ loaded.saves < MaxSaves
  /\ dbProducts' = UpsertProduct(dbProducts, products[1])
  /\ dbImages' = UpsertImages(dbImages, ImageRows(products[1]))
  /\ loaded' = [pc |-> "saved", agg |-> <<>>, saves |-> loaded.saves + 1]
  /\ UNCHANGED products
  /\ UNCHANGED storeOther

\* The identification's success update with a resolved image URL.
StReplaceMain(imageUrl) ==
  /\ products[1].mainImage = SvgPlaceholder
  /\ products' = updateProduct(products, 1,
                   identifySuccessUpdates(
                     [products[1].details EXCEPT !.imageUrl = imageUrl], TRUE))
  /\ loaded' = [loaded EXCEPT !.pc = "dirty", !.agg = <<>>]
  /\ UNCHANGED <<dbProducts, dbImages>>
  /\ UNCHANGED storeOther

\* fetchProducts, run to its end after the last save.
StLoad ==
  /\ loaded.pc = "saved"
  /\ \E order \in RowOrders(dbProducts) :
       loaded' = [loaded EXCEPT !.pc = "loaded",
                                !.agg = LoadedProducts(order, dbProducts, dbImages)]
  /\ UNCHANGED <<products, dbProducts, dbImages>>
  /\ UNCHANGED storeOther

NextStore ==
  \/ StSave
  \/ \E imageUrl \in {OgUrl, LongUrl} : StReplaceMain(imageUrl)
  \/ StLoad

SpecStore == InitStore /\ [][NextStore]_vars

-----------------------------------------------------------------------------
(* Properties of the lifecycle orchestrator (Spec, SpecMount).               *)

OpsOf(pid) == {k \in 1..Len(ops) : ops[k].pid = pid}
TickersOf(pid) == {k \in 1..Len(tickers) : tickers[k].pid = pid}

\* The step is the completion of identification k with a successful result,
\* for a product that is still in the collection.
IdentificationSucceeds(k, g, ogImage) ==
  /\ IdentifyResolves(k, g, ogImage)
  /\ ops[k].pid \in Ids(products)
  /\ ~identifyProductFromMedia(g, ops[k].input, ops[k].isUrlMode, ogImage).threw

\* The step is the completion of identification k with a failure.
IdentificationFails(k, g, ogImage) ==
  /\ IdentifyResolves(k, g, ogImage)
  /\ ops[k].pid \in Ids(products)
  /\ identifyProductFromMedia(g, ops[k].input, ops[k].isUrlMode, ogImage).threw

\* The step is the completion of inspection k with a failure.
InspectionFails(k, g) ==
  /\ QCResolves(k, g)
  /\ ops[k].pid \in Ids(products)
  /\ \A t \in Clock : performQualityControl(g, ops[k].snapshot, ops[k].media, t).threw

\* No inspection has been started for the product since it was inserted.
NeverInspected(pid) ==
  /\ \A k \in OpsOf(pid) : ops[k].kind = "identify"
  /\ Find(products, pid).qcReports = <<>>
  /\ Find(products, pid).error = NoError

\* C1: the success update of an identification leaves the product idle with
\* progress 100 (coming from identifying when no inspection was started on
\* the product meanwhile), and no tick of any ticker moves a progress of 100.
C1_SuccessEndsAtHundred ==
  [][ /\ \A k \in 1..MaxOps, g \in IdGatewayResults, ogImage \in {EmptyStr, OgUrl} :
           IdentificationSucceeds(k, g, ogImage) =>
             /\ Find(products', ops[k].pid).processingStatus = "idle"
             /\ Find(products', ops[k].pid).progress = DoneProgress
             /\ NeverInspected(ops[k].pid) =>
                  Find(products, ops[k].pid).processingStatus = "identifying"
      /\ \A k \in 1..MaxOps :
           Tick(k) =>
             /\ Len(products') = Len(products)
             /\ \A i \in 1..Len(products) :
                  products[i].progress = DoneProgress =>
                    products'[i].progress = DoneProgress
    ]_vars

\* C1 witness: an identified product is idle at 100 and its ticker has fired
\* after the success update and cancelled itself.
C1_Witness ==
  \E i \in 1..Len(products) :
    /\ products[i].processingStatus = "idle"
    /\ products[i].progress = DoneProgress
    /\ products[i].details.name = "Trail Runner"
    /\ products[i].qcReports = <<>>
    /\ OpsOf(products[i].id) = {}
    /\ TickersOf(products[i].id) = {}

\* C2: the failure update of an identification or inspection leaves the
\* product in status error with a non-empty error message and does not
\* change progress.
C2_FailureKeepsProgress ==
  [][ /\ \A k \in 1..MaxOps, g \in IdGatewayResults, ogImage \in {EmptyStr, OgUrl} :
           IdentificationFails(k, g, ogImage) =>
             /\ Find(products', ops[k].pid).processingStatus = "error"
             /\ Find(products', ops[k].pid).error # NoError
             /\ Find(products', ops[k].pid).error[1] # ""
             /\ Find(products', ops[k].pid).progress = Find(products, ops[k].pid).progress
      /\ \A k \in 1..MaxOps, g \in QcGatewayResults :
           InspectionFails(k, g) =>
             /\ Find(products', ops[k].pid).processingStatus = "error"
             /\ Find(products', ops[k].pid).error # NoError
             /\ Find(products', ops[k].pid).error[1] # ""
             /\ Find(products', ops[k].pid).progress = Find(products, ops[k].pid).progress
    ]_vars

\* C2 witness: a product failed after its ticker had moved progress off the
\* value the operation started with.
C2_Witness ==
  \E i \in 1..Len(products) :
    /\ products[i].processingStatus = "error"
    /\ products[i].error # NoError
    /\ products[i].progress \notin {InitialProgress, QcStartProgress, DoneProgress, 0}
    /\ OpsOf(products[i].id) = {}

\* C3: a product of the collection is identifying or analyzing exactly when
\* an operation started for it has not resolved yet.
C3_ActiveIffOutstanding ==
  \A i \in 1..Len(products) :
    IsActive(products[i].processingStatus) <=> OpsOf(products[i].id) # {}

\* C4 (the part about ticks): a tick applied to a product that has an
\* operation outstanding never lowers its progress.
C4_TicksNeverLowerProgress ==
  [][ \A k \in 1..MaxOps :
        Tick(k) =>
          /\ Len(products') = Len(products)
          /\ \A i \in 1..Len(products) :
               OpsOf(products[i].id) # {} =>
                 products'[i].progress >= products[i].progress
    ]_vars

\* C5: a completion callback or a tick never puts a removed id back into the
\* collection.
C5_NoResurrection ==
  [][ (\/ \E k \in 1..MaxOps, g \in IdGatewayResults, ogImage \in {EmptyStr, OgUrl} :
            IdentifyResolves(k, g, ogImage)
       \/ \E k \in 1..MaxOps, g \in QcGatewayResults : QCResolves(k, g)
       \/ \E k \in 1..MaxOps : Tick(k))
      => \A id \in deleted : id \notin Ids(products) => id \notin Ids(products')
    ]_vars

\* C5 witness: a callback or tick has run for an id that had been removed,
\* and the id is still absent.
C5_Witness ==
  \E id \in stale : id \in deleted /\ id \notin Ids(products)

\* C6: once a product is deleted and every issued store request has
\* completed, the store holds no row of either table for its id.
C6_DeletedLeavesNoRows ==
  \A id \in deleted :
    (id \notin Ids(products) /\ pending = <<>>) =>
      /\ id \notin DOMAIN dbProducts
      /\ \A r \in dbImages : r.pid # id

\* The inspection's response has no parseable JSON.
NoParseableJson(g) == ~g.threw /\ ~ExtractJson(g.response.text).ok

\* C10: an inspection whose response has no parseable JSON ends with the
\* product idle and a report FAIL / 0 / non-empty summary at the head.
C10_UnparseableGivesFailReport ==
  [][ \A k \in 1..MaxOps, g \in QcGatewayResults :
        (QCResolves(k, g) /\ ops[k].pid \in Ids(products) /\ NoParseableJson(g)) =>
          /\ Find(products', ops[k].pid).processingStatus = "idle"
          /\ Len(Find(products', ops[k].pid).qcReports) =
               Len(Find(products, ops[k].pid).qcReports) + 1
          /\ Find(products', ops[k].pid).qcReports[1].status = "FAIL"
          /\ Find(products', ops[k].pid).qcReports[1].overallScore = 0
          /\ Find(products', ops[k].pid).qcReports[1].summary # <<>>
    ]_vars

\* The step issues an identification call: a new operation is appended.
IssuesIdentification ==
  /\ Len(ops') = Len(ops) + 1
  /\ ops'[Len(ops')].kind = "identify"

\* C12: the step that issues an identification call has, in the same
\* synchronous run of the handler, put the new product (placeholder details,
\* status identifying) at the head of the collection and issued its save; and
\* every identification outstanding is for a product that was inserted.
C12_InsertAndSaveComeWithTheCall ==
  [][ /\ IssuesIdentification =>
           LET op == ops'[Len(ops')]
               rawUrl == IF op.isUrlMode THEN op.input ELSE EmptyStr
           IN  /\ Len(products') = Len(products) + 1
               /\ Tail(products') = products
               /\ Head(products').id = op.pid
               /\ Head(products').details = PlaceholderDetails(rawUrl)
               /\ Head(products').processingStatus = "identifying"
               /\ Head(products').qcReports = <<>>
               /\ pending' = Append(pending, SaveRequest(Head(products')))
      /\ \A k \in 1..Len(ops') :
           ops'[k].kind = "identify" =>
             ops'[k].pid \in Ids(products') \cup deleted'
    ]_vars

\* C12 witness: an identification is outstanding, its placeholder product is
\* at the head of the collection and its save is in flight.
C12_Witness ==
  /\ Len(ops) >= 1
  /\ ops[Len(ops)].kind = "identify"
  /\ Len(products) >= 1
  /\ Head(products).id = ops[Len(ops)].pid
  /\ Head(products).details.name = "Identifying Product..."
  /\ \E k \in 1..Len(pending) :
       pending[k].type = "save" /\ pending[k].product = Head(products)

\* What asynchronous work would change.
workVars == <<products, nextId, started, ops, tickers, pending, dbProducts, dbImages>>

\* C13: a request with a missing credential or with empty media changes
\* nothing: the collection is as it was, no ticker is started, no AI call and
\* no store write is issued. (Empty media are turned away by the screens'
\* handlers, a missing credential by the hook's.)
C13_BadRequestsChangeNothing ==
  [][ /\ \A mode \in {"upload", "url"}, file \in BOOLEAN, url \in BOOLEAN, apiKey \in BOOLEAN :
           (/\ SubmitIdentification(mode, file, url, apiKey)
            /\ (~apiKey \/ (~file /\ ~url)))
           => UNCHANGED workVars
      /\ \A pid \in 1..MaxProducts, files \in 0..1, apiKey \in BOOLEAN :
           (RunQC(pid, files, apiKey) /\ (~apiKey \/ files = 0))
           => UNCHANGED workVars
    ]_vars

\* C13 witness: requests have been turned away both ways, without and with
\* the alert about the credential.
C13_Witness ==
  /\ ui.alerts >= 1
  /\ ui.rejected > ui.alerts

\* C14: a product leaves the collection only by handleDeleteSelected.
C14_OnlyDeleteRemoves ==
  [][ \A id \in Ids(products) : id \notin Ids(products') => id \in deleted' ]_vars

\* C15: no two reports of one product have the same id.
C15_ReportIdsUnique ==
  \A i \in 1..Len(products) :
    \A a, b \in 1..Len(products[i].qcReports) :
      a # b => products[i].qcReports[a].id # products[i].qcReports[b].id

\* The status operation k set on its product when it started.
StatusSetBy(k) == IF ops[k].kind = "qc" THEN "analyzing" ELSE "identifying"

\* The product of operation k is present and still in that status.
StillInStatusSetBy(k) ==
  /\ ops[k].pid \in Ids(products)
  /\ Find(products, ops[k].pid).processingStatus = StatusSetBy(k)

\* C17: a completion callback changes the collection only if the product of
\* its operation exists and is still in the status the operation set.
C17_CallbacksCheckStatus ==
  [][ \A k \in 1..MaxOps :
        (\/ \E g \in IdGatewayResults, ogImage \in {EmptyStr, OgUrl} :
              IdentifyResolves(k, g, ogImage)
         \/ \E g \in QcGatewayResults, t \in 0..MaxQcNow : QCResolvesAt(k, g, t))
        => (StillInStatusSetBy(k) \/ products' = products)
    ]_vars

\* C18: a tick changes at most the progress field of its own product, and
\* that only when the product is present and identifying or analyzing: every
\* other field, every other product, and a product that is idle or in error
\* stay as they were.
C18_TickTouchesOnlyOwnProgress ==
  [][ \A k \in 1..MaxOps :
        Tick(k) =>
          /\ Len(products') = Len(products)
          /\ \A i \in 1..Len(products) :
               IF /\ products[i].id = tickers[k].pid
                  /\ IsActive(products[i].processingStatus)
               THEN products'[i] = [products[i] EXCEPT !.progress = products'[i].progress]
               ELSE products'[i] = products[i]
    ]_vars

\* C18 witness: a ticker has written its progress to its own product, which is
\* still being processed, next to another product that is idle or in error.
C18_Witness ==
  /\ Len(products) = 2
  /\ \E k \in 1..Len(tickers), i, j \in 1..2 :
       /\ tickers[k].ticks > 0
       /\ products[i].id = tickers[k].pid
       /\ IsActive(products[i].processingStatus)
       /\ products[i].progress = Round(tickers[k].current)
       /\ j # i
       /\ ~IsActive(products[j].processingStatus)

\* The ticker's product is present and identifying or analyzing.
TickerApplies(k) ==
  /\ tickers[k].pid \in Ids(products)
  /\ IsActive(Find(products, tickers[k].pid).processingStatus)

\* The ticker's counter goes over the ceiling whatever the next step is.
TickerAtCeiling(k) ==
  \A step \in TickerSteps : tickers[k].current + step > TickerCeiling * 10

\* C19: every ticker eventually stops; the tick that finds its product absent
\* or not being processed is its last and writes nothing, and the tick that
\* takes its counter over 90 is its last; a ticker that goes on has a counter
\* of at most 90. (A stopped ticker is out of tickers and fires no more.)
C19_TickerStops ==
  /\ (Len(tickers) > 0) ~> (Len(tickers) = 0)
  /\ [][ TickerTick(1) =>
           /\ ~TickerApplies(1) => (tickers' = RemoveAt(tickers, 1) /\ products' = products)
           /\ TickerAtCeiling(1) => tickers' = RemoveAt(tickers, 1)
           /\ tickers' # RemoveAt(tickers, 1) =>
                /\ tickers'[1].current <= TickerCeiling * 10
                /\ tickers'[1].current > tickers[1].current
       ]_vars

\* C19 witness: the ticker has stopped at the ceiling while its product is
\* still being identified.
C19_Witness ==
  /\ started = 1
  /\ tickers = <<>>
  /\ Len(products) = 1
  /\ products[1].processingStatus = "identifying"
  /\ products[1].progress = TickerCeiling

\* C20: the writes of one product land in any order, and each landing write
\* replaces the stored row by its own snapshot of the product, whatever was
\* issued before or after it and whatever the row holds: the write that
\* lands last wins.
C20_LastLandingWriteWins ==
  [][ \A k \in 1..MaxPending :
        SaveProductsDone(k) =>
          /\ pending[k].product.id \in DOMAIN dbProducts'
          /\ dbProducts'[pending[k].product.id] = CleanProduct(pending[k].product)
          /\ \A id \in DOMAIN dbProducts' \ {pending[k].product.id} :
               id \in DOMAIN dbProducts /\ dbProducts'[id] = dbProducts[id]
    ]_vars

\* C20 witness: every write has completed, and the store holds the product as
\* it was when identification began while memory holds it identified: the
\* earlier write landed after the later one.
C20_Witness ==
  /\ pending = <<>>
  /\ ops = <<>>
  /\ \E i \in 1..Len(products) :
       /\ products[i].id \in DOMAIN dbProducts
       /\ products[i].processingStatus = "idle"
       /\ dbProducts[products[i].id].processingStatus = "identifying"
       /\ dbProducts[products[i].id].details # products[i].details
       /\ dbProducts[products[i].id].progress # products[i].progress

\* The step is the completion of an inspection of product id with a report.
InspectionSucceedsFor(id) ==
  \E k \in 1..MaxOps, g \in QcGatewayResults, t \in 0..MaxQcNow :
    /\ QCResolvesAt(k, g, t)
    /\ ops[k].pid = id
    /\ ~performQualityControl(g, ops[k].snapshot, ops[k].media, t).threw

\* C21: whatever the step, the report list of a product either stays as it
\* is, or the step is a successful inspection of that product and the list is
\* one new report followed by the reports it held, unchanged and in order.
C21_ReportsOnlyPrepended ==
  [][ \A i \in 1..Len(products), j \in 1..Len(products') :
        products[i].id = products'[j].id =>
          \/ products'[j].qcReports = products[i].qcReports
          \/ /\ InspectionSucceedsFor(products[i].id)
             /\ Len(products'[j].qcReports) = Len(products[i].qcReports) + 1
             /\ Tail(products'[j].qcReports) = products[i].qcReports
    ]_vars

\* C21 witness: two inspections that were outstanding together have both
\* succeeded, and the product holds both reports.
C21_Witness ==
  /\ started = 2
  /\ ops = <<>>
  /\ Len(products) = 1
  /\ Len(products[1].qcReports) = 2
  /\ products[1].processingStatus = "idle"
  /\ Len(products[1].qcReports[1].images) = 1

\* C22: a store write or delete that fails leaves the collection as it is,
\* the failed write raises no dialog when its code is 23505 and one dialog
\* otherwise (the rejection of image rows by the foreign key included).
C22_StoreFailuresKeepMemory ==
  [][ /\ \A k \in 1..MaxPending, code \in StoreErrorCodes :
           (SaveProductsFails(k, code) \/ SaveImagesFails(k, code)) =>
             /\ products' = products
             /\ ui'.alerts = ui.alerts + (IF code = "23505" THEN 0 ELSE 1)
      /\ \A k \in 1..MaxPending :
           DeleteFails(k) =>
             /\ products' = products
             /\ \A id \in pending[k].ids : id \notin Ids(products')
      /\ \A k \in 1..MaxPending :
           (SaveImagesDone(k) /\ dbImages' = dbImages /\ pending[k].product.id \notin DOMAIN dbProducts) =>
             /\ products' = products
             /\ ui'.alerts = ui.alerts + 1
    ]_vars

\* C22 witness: both writes of an identified product have failed, one with
\* code 23505 and one with another code: the product is in memory, identified,
\* and the store has no row of it.
C22_Witness ==
  /\ Len(products) = 1
  /\ deleted = {}
  /\ pending = <<>>
  /\ ops = <<>>
  /\ products[1].processingStatus = "idle"
  /\ products[1].id \notin DOMAIN dbProducts
  /\ ui.alerts = 1

\* C23: when the response handed to an identification has no text, no
\* '{' ... '}' span or a span that is not JSON, the callback makes no AI call
\* (the run of the gateway stays as it is, and stays so once the operation
\* is over) and takes the product from identifying to error.
C23_UnparseableIsNotRetried ==
  [][ /\ \A text \in AllIdTexts, ogImage \in {EmptyStr, OgUrl} :
           (gw.pc = "returned" /\ CallResolves(text, ogImage) /\ ~ExtractJson(text).ok) =>
             /\ gw' = gw
             /\ Find(products, 1).processingStatus = "identifying"
             /\ Find(products', 1).processingStatus = "error"
      /\ (started = 1 /\ ops = <<>>) => gw' = gw
    ]_vars

\* C23 witness: after one retry the gateway returned a response without a
\* '{' ... '}' span, and the product is in error with that message.
C23_Witness ==
  /\ gw.pc = "returned"
  /\ Len(gw.calls) = 2
  /\ ops = <<>>
  /\ Len(products) = 1
  /\ products[1].processingStatus = "error"
  /\ products[1].error = <<"Failed to identify product. ",
                           "Failed to find JSON object in AI response">>

\* C24: no inline part an inspection sends has MIME type image/svg+xml.
C24_NoSvgInlinePart ==
  \A k \in 1..Len(ops) :
    \A i \in 1..Len(ops[k].parts) : ops[k].parts[i].mimeType # SvgMime

\* C25: with inspections started only where the screens allow it, no product
\* has more than one AI operation outstanding.
C25_OneOperationPerProduct ==
  \A pid \in 1..MaxProducts : Cardinality(OpsOf(pid)) <= 1

\* C25 witness: a product whose identification is over is being inspected,
\* and that inspection is its only outstanding operation.
C25_Witness ==
  /\ started = 2
  /\ \E pid \in Ids(products) :
       /\ Find(products, pid).processingStatus = "analyzing"
       /\ Cardinality(OpsOf(pid)) = 1
       /\ \A k \in OpsOf(pid) : ops[k].kind = "qc"

\* A JSON array whose elements are all strings.
IsListOfStrings(j) ==
  j.t = "array" /\ \A i \in 1..Len(j.items) : j.items[i].t = "string"

\* C26: in every report an inspection returned, the details of every section
\* is a list of strings, and followUp is there with a boolean required.
C26_ReportIsNormalized ==
  \A p \in 1..Len(products) :
    \A r \in 1..Len(products[p].qcReports) :
      LET report == products[p].qcReports[r]
      IN  /\ report.sections.t = "array" =>
               \A i \in 1..Len(report.sections.items) :
                 IsListOfStrings(DetailsOf(report.sections.items[i]))
          /\ report.followUp.t = "object"
          /\ report.followUp.items[1].t = "boolean"

\* C27: a ticker that writes progress to a product is the last one started
\* for it: no ticker of an earlier operation writes while a later
\* operation's ticker is running.
C27_OnlyNewestTickerWrites ==
  [][ \A k \in 1..MaxOps :
        (Tick(k) /\ products' # products) =>
          \A j \in TickersOf(tickers[k].pid) : j <= k
    ]_vars

\* C28: a product that is identifying or analyzing is later idle, in error
\* or out of the collection.
C28_ActiveEventuallySettles ==
  \A pid \in 1..MaxProducts :
    (pid \in Ids(products) /\ IsActive(Find(products, pid).processingStatus))
      ~> (pid \notin Ids(products) \/ ~IsActive(Find(products, pid).processingStatus))

\* The step is the completion of inspection k with a report, for a product
\* that is still in the collection.
InspectionSucceeds(k, g) ==
  /\ QCResolves(k, g)
  /\ ops[k].pid \in Ids(products)
  /\ \E t \in Clock : ~performQualityControl(g, ops[k].snapshot, ops[k].media, t).threw

\* C29: the success update of an identification or an inspection leaves the
\* product idle with progress 100 and with the error field it had.
C29_SuccessKeepsError ==
  [][ /\ \A k \in 1..MaxOps, g \in IdGatewayResults, ogImage \in {EmptyStr, OgUrl} :
           IdentificationSucceeds(k, g, ogImage) =>
             Find(products', ops[k].pid).error = Find(products, ops[k].pid).error
      /\ \A k \in 1..MaxOps, g \in QcGatewayResults :
           InspectionSucceeds(k, g) =>
             /\ Find(products', ops[k].pid).error = Find(products, ops[k].pid).error
             /\ Find(products', ops[k].pid).processingStatus = "idle"
             /\ Find(products', ops[k].pid).progress = DoneProgress
    ]_vars

\* C29 witness: a product whose identification failed has been inspected with
\* success: idle, progress 100, one report, and the identification's error.
C29_Witness ==
  \E i \in 1..Len(products) :
    /\ products[i].processingStatus = "idle"
    /\ products[i].progress = DoneProgress
    /\ Len(products[i].qcReports) = 1
    /\ products[i].error # NoError
    /\ Head(products[i].error) = "Failed to identify product. "
    /\ OpsOf(products[i].id) = {}

\* The step is a completion callback of an operation whose product is not in
\* the collection, or a tick of a ticker whose product is not in it.
RunsForAbsentProduct ==
  \/ \E k \in 1..MaxOps :
       /\ k <= Len(ops)
       /\ ops[k].pid \notin Ids(products)
       /\ \/ \E g \in IdGatewayResults, ogImage \in {EmptyStr, OgUrl} :
               IdentifyResolves(k, g, ogImage)
          \/ \E g \in QcGatewayResults : QCResolves(k, g)
  \/ \E k \in 1..MaxOps :
       /\ k <= Len(tickers)
       /\ tickers[k].pid \notin Ids(products)
       /\ Tick(k)

\* C30: a callback or tick for an id that is not in the collection changes
\* neither the collection nor the store and sends no request; and every save
\* request a step sends is for a product that is in the collection and has
\* not been removed.
C30_NoWriteAfterRemoval ==
  [][ /\ RunsForAbsentProduct =>
           /\ products' = products
           /\ pending' = pending
           /\ dbProducts' = dbProducts
           /\ dbImages' = dbImages
      /\ Len(pending') > Len(pending) =>
           \A i \in (Len(pending) + 1)..Len(pending') :
             pending'[i].type = "save" =>
               /\ pending'[i].product.id \in Ids(products')
               /\ pending'[i].product.id \notin deleted'
    ]_vars

\* C30 witness: a callback or tick has run for a removed id after its delete
\* and every earlier write completed, and nothing is on its way to the store.
C30_Witness ==
  \E id \in stale :
    /\ id \in deleted
    /\ id \notin Ids(products)
    /\ OpsOf(id) = {}
    /\ pending = <<>>
    /\ id \notin DOMAIN dbProducts

-----------------------------------------------------------------------------
(* Properties of the fallback ladder (SpecLadder).                           *)

DetailedLadder == <<Call(ModelPro, TRUE), Call(ModelPro, FALSE), Call(ModelFlash, FALSE)>>

AllInternal == \A i \in 1..Len(gw.errs) : isInternalError(gw.errs[i])

\* C7: started with (pro, thinking on) and failing with 500-class errors
\* only, the ladder makes the three calls of DetailedLadder in that order and
\* throws after the third.
C7_DetailedLadderOn500 ==
  (gw.pc # "idle" /\ gw.calls[1] = Call(ModelPro, TRUE) /\ AllInternal) =>
    /\ gw.calls = SubSeq(DetailedLadder, 1, Len(gw.calls))
    /\ Len(gw.calls) = IF Len(gw.errs) < 3 THEN Len(gw.errs) + 1 ELSE 3
    /\ gw.pc = "thrown" <=> Len(gw.errs) = 3
    /\ gw.pc \in {"calling", "returned", "thrown"}

\* C7 witness: the error has propagated after three 500-class failures.
C7_Witness ==
  /\ gw.pc = "thrown"
  /\ gw.calls = DetailedLadder
  /\ Len(gw.errs) = 3
  /\ AllInternal

Tier(call) == IF Includes(call.model, "pro") THEN 1 ELSE 0
Rank(call) == 2 * Tier(call) + (IF call.thinking THEN 1 ELSE 0)

\* C8: whatever the start and the errors, at most three calls are made, and
\* each retry is strictly lower in (tier, thinking): thinking never comes
\* back on, the tier never goes up.
C8_LadderNarrows ==
  /\ Len(gw.calls) <= 3
  /\ gw.pc # "capped"
  /\ \A i \in 1..(Len(gw.calls) - 1) :
       /\ Rank(gw.calls[i + 1]) < Rank(gw.calls[i])
       /\ gw.calls[i + 1].thinking => gw.calls[i].thinking
       /\ Tier(gw.calls[i + 1]) <= Tier(gw.calls[i])
       /\ ~gw.calls[i + 1].thinking

\* C8 witness: a run with two retries whose last call was answered.
C8_Witness ==
  /\ gw.pc = "returned"
  /\ Len(gw.calls) = 3
  /\ Len(gw.errs) = 2

\* The class of an error: 500-class, else 429-class, else other.
ErrorClass(error) ==
  IF isInternalError(error) THEN "500"
  ELSE IF isQuotaError(error) THEN "429"
  ELSE "other"

NoCall == [model |-> <<>>, thinking |-> FALSE]

\* The decision table of C16: the call that follows a failed call, or NoCall.
TableStep(call, class) ==
  IF class = "500" /\ call.thinking THEN Call(call.model, FALSE)
  ELSE IF class \in {"429", "500"} /\ Tier(call) = 1 THEN Call(ModelFlash, FALSE)
  ELSE NoCall

\* C16: after every failed call the next step is the one the table gives for
\* (tier, thinking, error class): 500 with thinking on retries the same model
\* with thinking off; 429, or 500 with thinking off, on the higher tier
\* retries the lower tier with thinking off; anything else propagates the
\* error and no further call is made.
C16_DecisionTable ==
  /\ gw.pc \in {"calling", "returned"} => Len(gw.calls) = Len(gw.errs) + 1
  /\ gw.pc = "thrown" => Len(gw.calls) = Len(gw.errs)
  /\ \A i \in 1..Len(gw.errs) :
       LET step == TableStep(gw.calls[i], ErrorClass(gw.errs[i]))
       IN  IF step = NoCall
           THEN Len(gw.calls) = i /\ gw.pc = "thrown"
           ELSE Len(gw.calls) > i /\ gw.calls[i + 1] = step

\* C16 witness: a 429 on the higher tier with thinking on went to the lower
\* tier, whose 429 then propagated.
C16_Witness ==
  /\ gw.pc = "thrown"
  /\ gw.calls = <<Call(ModelPro, TRUE), Call(ModelFlash, FALSE)>>
  /\ ErrorClass(gw.errs[1]) = "429"
  /\ ErrorClass(gw.errs[2]) = "429"

-----------------------------------------------------------------------------
(* Properties of the record store round trip (SpecStore).                    *)

ImagesOf(product) == [i \in 1..Len(product.qcReports) |-> product.qcReports[i].images]

\* C9: the product loaded after a save has the saved product's mainImage and
\* every report's images in order.
C9_RoundTrip ==
  loaded.pc = "loaded" =>
    /\ Len(loaded.agg) = 1
    /\ loaded.agg[1].mainImage = products[1].mainImage
    /\ ImagesOf(loaded.agg[1]) = ImagesOf(products[1])

-----------------------------------------------------------------------------
(* Properties of one identification (SpecIdentify).                          *)

\* C11: a successful URL-mode identification leaves details.productUrl equal
\* to the URL the user gave, and when the scraper resolved an image URL the
\* product's mainImage is that URL, whatever the model and the chunks said.
C11_UrlModeKeepsInputAndScrapedImage ==
  [][ \A g \in AllIdGatewayResults, ogImage \in {EmptyStr, OgUrl} :
        (IdentificationSucceeds(1, g, ogImage) /\ ops[1].isUrlMode) =>
          /\ Find(products', ops[1].pid).details.productUrl = ops[1].input
          /\ ogImage.length > 0 =>
               /\ Find(products', ops[1].pid).mainImage = ogImage
               /\ Find(products', ops[1].pid).details.imageUrl = ogImage
    ]_vars

\* C11 witness: a URL-mode product identified with the scraped image in place
\* of the placeholder.
C11_Witness ==
  /\ Len(products) = 1
  /\ products[1].processingStatus = "idle"
  /\ products[1].details.name = "Trail Runner"
  /\ products[1].details.productUrl = InputUrl
  /\ products[1].mainImage = OgUrl
  /\ ops = <<>>

=============================================================================
